---- MODULE Spec2Model ----
(***************************************************************************)
(* Model of the agent WebSocket gateway (ws_server.py) and of its MongoDB  *)
(* session/event store (ii_agent/db/manager.py).                           *)
(*                                                                         *)
(* The gateway is one asyncio event loop: a handler coroutine per          *)
(* websocket (handshake, then the dispatch loop), and one asyncio.Task per *)
(* accepted query (run_agent_async).  A step of the model is what a        *)
(* coroutine does between two suspension points.                           *)
(***************************************************************************)
EXTENDS Integers, Sequences, FiniteSets, TLC

\* ------------------------------------------------------------------ bounds
MaxRecv == 3       \* inbound messages read over all connections
MaxEmit == 1       \* events the runs of the agents put on their queues, in all
MaxClock == 1      \* ticks of the server clock (SpecStore)
MaxCalls == 2      \* create_session calls per store client (SpecStore)
MaxLog == 3        \* save_event calls (SpecLog)
MaxFiles == 3      \* files a workspace holds before uploads stop (SpecUpload)

\* ------------------------------------------------------------------ values
Conns == {"c1", "c2"}
None == "<none>"
Users == {"u1", "u1_d"}
Devices == {"x", "d_x"}
\* The (user_id, X-Device-ID) pairs the client of each websocket may present: that
\* of c2 is the pair of c1, another pair with the same composite id, or a pair
\* with another composite id.
AllIdentities == {<<"u1", "d_x">>, <<"u1_d", "x">>, <<"u1", "x">>}
Identities(c) == IF c = "c1" THEN {<<"u1", "d_x">>} ELSE AllIdentities

\* gateway processes that share the store, each inside create_session at most once
\* at a time (SpecStore)
StoreClients == {"w1", "w2"}

\* uuid.uuid4() of create_workspace_manager_for_connection: the n-th of its owner
WorkspaceUuid(owner, n) == <<owner, n>>

VARIABLES
    pc,                 \* handler position of each websocket
    ident,              \* (user_id, device_id_header) of each websocket
    response,           \* what the identity service answered for each websocket
    workspace_session_uuid, \* uuid of the workspace provisioned for each websocket
    received,           \* inbound messages read so far by each dispatch loop
    outbox,             \* messages sent on each websocket, in order
    active_connections, \* ws_server.active_connections
    active_agents,      \* ws_server.active_agents: websocket -> agent (0: no entry)
    active_tasks,       \* ws_server.active_tasks: websocket -> task (0: no entry)
    message_processors, \* ws_server.message_processors: websocket -> processor (0: no entry)
    tasks,              \* the asyncio.Tasks created for each websocket, in creation order
    agents,             \* every agent constructed, in construction order
    sessions,           \* DatabaseManager.sessions_collection
    events,             \* DatabaseManager.events_collection, in insertion order
    clock,              \* datetime.utcnow()
    callers,            \* store clients inside create_session (SpecStore)
    fs                  \* the workspace directory of a session: directories and files

vars == <<pc, ident, response, workspace_session_uuid, received, outbox,
          active_connections, active_agents, active_tasks, message_processors, tasks,
          agents, sessions, events, clock, callers, fs>>

gatewayVars == <<pc, ident, response, workspace_session_uuid, received, outbox,
                 active_connections, active_agents, active_tasks, message_processors,
                 tasks, agents>>

\* ------------------------------------------------------------------ messages
\* RealtimeEvent sent with websocket.send_json.  `task` is 0 for a message of the
\* handler, and the number of the query's Task for the ack and the Task's messages.
Msg(type, message, task) == [type |-> type, message |-> message, task |-> task]

MsgAuthFailed == Msg("error", "User authentication failed.", 0)
MsgNoDevice == Msg("error", "X-Device-ID header is required and was not found.", 0)
\* content = {"message": ..., "workspace_path": str(workspace_manager.root)}
MsgConnected(root) ==
    [type |-> "connection_established", message |-> "Connected to Agent WebSocket Server",
     task |-> 0, workspace_path |-> root]
MsgAgentInitialized == Msg("agent_initialized", "Agent initialized", 0)
MsgBusy == Msg("error", "A query is already being processed", 0)
MsgProcessing(t) == Msg("processing", "Processing your request...", t)
MsgPong == Msg("pong", "", 0)
MsgCanceled == Msg("system", "Query canceled", 0)
MsgNoActiveQuery == Msg("error", "No active query to cancel", 0)
MsgNoAgent(t) == Msg("error", "Agent not initialized for this connection", t)
MsgRunError(t) == Msg("error", "Error running agent: ...", t)
MsgRequestError == Msg("error", "Error processing request: ...", 0)
MsgAgentEvent(t) == Msg("agent_event", "", t)
\* str(msg_type) of the f-string: a missing "type" is None
TypeText(msg_type) == IF msg_type = None THEN "None" ELSE msg_type
MsgInvalidJson == Msg("error", "Invalid JSON format", 0)
MsgUnknownType(msg_type) ==
    Msg("error", "Unknown message type: " \o TypeText(msg_type), 0)

Send(c, m) == outbox' = [outbox EXCEPT ![c] = Append(@, m)]

\* ------------------------------------------------------------------ session store
\* the two parts joined without the separator
CompositeSessionId_NoSeparator(user_id, device_id) == user_id \o device_id

\* composite_session_id = f"{user_id}_{device_id_header}"
CompositeSessionId(user_id, device_id) == user_id \o "_" \o device_id

\* update_many({user_id, device_id, is_active: True},
\*             {$set: {is_active: False, deactivated_at: now}})
DeactivateActive(S, user_id, device_id, now) ==
    { IF d.user_id = user_id /\ d.device_id = device_id /\ d.is_active
        THEN [d EXCEPT !.is_active = FALSE, !.deactivated_at = <<now>>]
        ELSE d : d \in S }

\* an insert in place of the upsert: a new document on every call
InsertSession(S, id, uuid, user_id, device_id, now) ==
    S \cup {[id |-> id, user_id |-> user_id, device_id |-> device_id,
             workspace_session_uuid |-> uuid, is_active |-> TRUE,
             created_at |-> now, last_activated_at |-> now,
             deactivated_at |-> <<>>]}

\* created_at under $set in place of $setOnInsert
UpsertSession_ResetsCreatedAt(S, id, uuid, user_id, device_id, now) ==
    {d \in S : d.id # id} \cup
        {[id |-> id, user_id |-> user_id, device_id |-> device_id,
          workspace_session_uuid |-> uuid, is_active |-> TRUE,
          created_at |-> now, last_activated_at |-> now,
          deactivated_at |-> IF \E d \in S : d.id = id /\ d.deactivated_at # <<>>
                               THEN <<now>> ELSE <<>>]}

\* update_one({_id: composite_session_id}, {$set: ..., $setOnInsert: ...}, upsert=True)
UpsertSession(S, id, uuid, user_id, device_id, now) ==
    IF \E d \in S : d.id = id
      THEN { IF d.id = id
               THEN [d EXCEPT !.user_id = user_id, !.device_id = device_id,
                              !.workspace_session_uuid = uuid,
                              !.is_active = TRUE, !.last_activated_at = now]
               ELSE d : d \in S }
      ELSE S \cup {[id |-> id, user_id |-> user_id, device_id |-> device_id,
                    workspace_session_uuid |-> uuid, is_active |-> TRUE,
                    created_at |-> now, last_activated_at |-> now,
                    deactivated_at |-> <<>>]}

\* DatabaseManager.create_session, run without interruption (one synchronous call)
CreateSession(S, id, uuid, user_id, device_id, now) ==
    UpsertSession(DeactivateActive(S, user_id, device_id, now),
                  id, uuid, user_id, device_id, now)

\* a store client outside create_session; done: the ids of its completed calls
IdleCaller(done) ==
    [pc |-> "idle", id |-> None, uuid |-> <<>>, user_id |-> None, device_id |-> None,
     now |-> 0, done |-> done]

\* ------------------------------------------------------------------ identity resolver
\* What the POST to the identity service gives: the request fails (connection
\* error, timeout), or a response with a status and a body; a body is malformed
\* or a JSON object, with or without "user_id".
Responses ==
    {[net |-> "request_error", status |-> 0, body |-> [json |-> FALSE, user_id |-> None]],
     [net |-> "ok", status |-> 500, body |-> [json |-> TRUE, user_id |-> "u1"]],
     [net |-> "ok", status |-> 200, body |-> [json |-> FALSE, user_id |-> None]],
     [net |-> "ok", status |-> 200, body |-> [json |-> TRUE, user_id |-> None]],
     [net |-> "ok", status |-> 200, body |-> [json |-> TRUE, user_id |-> ""]]}
    \cup {[net |-> "ok", status |-> 200, body |-> [json |-> TRUE, user_id |-> u]] :
             u \in Users}

\* no request made yet
NoResponse == [net |-> "none", status |-> 0, body |-> [json |-> FALSE, user_id |-> None]]

\* fetch_user_id without raise_for_status()
FetchUserId_NoStatusCheck(resp) ==
    IF resp.net # "ok" THEN None
    ELSE IF ~resp.body.json THEN None
    ELSE IF resp.body.user_id \notin {None, ""} THEN resp.body.user_id
    ELSE None

\* fetch_user_id: the value returned for a response.  httpx.RequestError and
\* HTTPStatusError have their except clauses, a body that does not parse is caught
\* by `except Exception`; response_json.get("user_id") is None for a missing field
\* and an empty user_id is falsy.  "<raised>" would be an exception that reaches
\* the caller: no path gives it.
FetchUserId(resp) ==
    IF resp.net # "ok" THEN None
    ELSE IF resp.status \notin 200..299 THEN None
    ELSE IF ~resp.body.json THEN None
    ELSE IF resp.body.user_id \notin {None, ""} THEN resp.body.user_id
    ELSE None

\* ------------------------------------------------------------------ initial state
Init ==
    /\ pc = [c \in Conns |-> "idle"]
    /\ ident = [c \in Conns |-> <<None, None>>]
    /\ response = [c \in Conns |-> NoResponse]
    /\ workspace_session_uuid = [c \in Conns |-> <<>>]
    /\ received = [c \in Conns |-> 0]
    /\ outbox = [c \in Conns |-> <<>>]
    /\ active_connections = {}
    /\ active_agents = [c \in Conns |-> 0]
    /\ active_tasks = [c \in Conns |-> 0]
    /\ message_processors = [c \in Conns |-> 0]
    /\ tasks = [c \in Conns |-> <<>>]
    /\ agents = <<>>
    /\ sessions = {}
    /\ events = <<>>
    /\ clock = 0
    /\ callers = [w \in StoreClients |-> IdleCaller(<<>>)]
    /\ fs = [dirs |-> {<<>>}, files |-> <<>>]

\* ------------------------------------------------------------------ handshake
\* `await websocket.send_json(error); await websocket.close(); return`
HandshakeRejected(c, m) ==
    /\ Send(c, m)
    /\ pc' = [pc EXCEPT ![c] = "closed"]
    /\ UNCHANGED <<active_connections, workspace_session_uuid>>

\* the connection_established sent without active_connections.add(websocket)
HandshakeAccepted_NotRegistered(c, outcome) ==
    /\ outcome = "ok"
    /\ workspace_session_uuid' = [workspace_session_uuid EXCEPT ![c] = WorkspaceUuid(c, 1)]
    /\ Send(c, MsgConnected(WorkspaceUuid(c, 1)))
    /\ pc' = [pc EXCEPT ![c] = "recv"]
    /\ UNCHANGED active_connections

\* websocket_endpoint from active_connections.add(websocket) to the dispatch loop
HandshakeAccepted(c, outcome) ==
    CASE outcome = "ok" ->
           \* connection_established sent, dispatch loop entered
           /\ active_connections' = active_connections \cup {c}
           /\ workspace_session_uuid' =
                 [workspace_session_uuid EXCEPT ![c] = WorkspaceUuid(c, 1)]
           /\ Send(c, MsgConnected(WorkspaceUuid(c, 1)))
           /\ pc' = [pc EXCEPT ![c] = "recv"]
      [] outcome = "workspace_fails" ->
           \* create_workspace_manager_for_connection raises before the try
           \* block: the handler ends with the exception
           /\ active_connections' = active_connections \cup {c}
           /\ pc' = [pc EXCEPT ![c] = "closed"]
           /\ UNCHANGED <<outbox, workspace_session_uuid>>
      [] outcome = "client_fails" ->
           \* get_client raises inside the try block:
           \* except Exception -> cleanup_connection
           /\ active_connections' = active_connections
           /\ workspace_session_uuid' =
                 [workspace_session_uuid EXCEPT ![c] = WorkspaceUuid(c, 1)]
           /\ pc' = [pc EXCEPT ![c] = "closed"]
           /\ UNCHANGED outbox

\* the device header checked before the identity
Handshake_DeviceCheckedFirst(c) ==
    /\ pc[c] = "idle"
    /\ \E resp \in Responses, header \in Devices \cup {None, ""},
          outcome \in {"ok", "workspace_fails", "client_fails"} :
        LET user_id == FetchUserId(resp) IN
        /\ \/ user_id = None
           \/ header \in {None, ""}
           \/ <<user_id, header>> \in Identities(c)
        /\ (user_id = None \/ header \in {None, ""}) => outcome = "ok"
        /\ response' = [response EXCEPT ![c] = resp]
        /\ ident' = [ident EXCEPT ![c] = <<user_id, header>>]
        /\ IF header \in {None, ""} THEN HandshakeRejected(c, MsgNoDevice)
           ELSE IF user_id = None THEN HandshakeRejected(c, MsgAuthFailed)
           ELSE HandshakeAccepted(c, outcome)
    /\ UNCHANGED <<received, active_agents, active_tasks, message_processors,
                   tasks, agents, sessions, events, clock, callers, fs>>

\* active_connections.add(websocket) before the device header is checked
Handshake_RegistersBeforeDeviceCheck(c) ==
    /\ pc[c] = "idle"
    /\ \E resp \in Responses, header \in Devices \cup {None, ""},
          outcome \in {"ok", "workspace_fails", "client_fails"} :
        LET user_id == FetchUserId(resp) IN
        /\ \/ user_id = None
           \/ header \in {None, ""}
           \/ <<user_id, header>> \in Identities(c)
        /\ (user_id = None \/ header \in {None, ""}) => outcome = "ok"
        /\ response' = [response EXCEPT ![c] = resp]
        /\ ident' = [ident EXCEPT ![c] = <<user_id, header>>]
        /\ IF user_id = None THEN HandshakeRejected(c, MsgAuthFailed)
           ELSE IF header \in {None, ""}
             THEN /\ Send(c, MsgNoDevice)
                  /\ pc' = [pc EXCEPT ![c] = "closed"]
                  /\ active_connections' = active_connections \cup {c}
                  /\ UNCHANGED workspace_session_uuid
           ELSE HandshakeAccepted(c, outcome)
    /\ UNCHANGED <<received, active_agents, active_tasks, message_processors,
                   tasks, agents, sessions, events, clock, callers, fs>>

\* websocket_endpoint up to the dispatch loop.  resp is the answer of the identity
\* service, header the X-Device-ID header (None: absent); ident keeps the
\* handler's user_id and device_id_header.
Handshake(c) ==
    /\ pc[c] = "idle"
    /\ \E resp \in Responses, header \in Devices \cup {None, ""},
          outcome \in {"ok", "workspace_fails", "client_fails"} :
        LET user_id == FetchUserId(resp) IN
        /\ \/ user_id = None
           \/ header \in {None, ""}
           \/ <<user_id, header>> \in Identities(c)
        /\ (user_id = None \/ header \in {None, ""}) => outcome = "ok"
        /\ response' = [response EXCEPT ![c] = resp]
        /\ ident' = [ident EXCEPT ![c] = <<user_id, header>>]
        /\ IF user_id = None THEN HandshakeRejected(c, MsgAuthFailed)
           ELSE IF header \in {None, ""} THEN HandshakeRejected(c, MsgNoDevice)
           ELSE HandshakeAccepted(c, outcome)
    /\ UNCHANGED <<received, active_agents, active_tasks, message_processors,
                   tasks, agents, sessions, events, clock, callers, fs>>

\* ------------------------------------------------------------------ tasks
NewTask == [st |-> "created", cancel |-> FALSE, agent |-> 0, run |-> "none",
            emitted |-> 0]

RECURSIVE SumOver(_, _)
SumOver(f, S) == IF S = {} THEN 0
                 ELSE LET x == CHOOSE y \in S : TRUE IN f[x] + SumOver(f, S \ {x})

TotalReceived == SumOver(received, Conns)
TotalEmitted ==
    SumOver([c \in Conns |-> SumOver([t \in DOMAIN tasks[c] |-> tasks[c][t].emitted],
                                     DOMAIN tasks[c])], Conns)

\* every Task and every agent answers an inbound message
TaskIds == 1..MaxRecv
AgentIds == 1..MaxRecv

\* asyncio.Task.done()
Done(task) == task.st \in {"completed", "cancelled"}

\* a Task whose cancellation was requested counted as finished
HasActiveTask_NotCancelling(c) ==
    /\ active_tasks[c] # 0
    /\ ~Done(tasks[c][active_tasks[c]])
    /\ ~tasks[c][active_tasks[c]].cancel

\* the test without `.done()`
HasActiveTask_NoDoneCheck(c) == active_tasks[c] # 0

\* `websocket in active_tasks and not active_tasks[websocket].done()`
HasActiveTask(c) == active_tasks[c] # 0 /\ ~Done(tasks[c][active_tasks[c]])

\* a loop that awaits the Task before it reads the next message
AtRecv_AwaitsTask(c) == pc[c] = "recv" /\ ~HasActiveTask(c)

\* the dispatch loop is suspended in websocket.receive_text()
AtRecv(c) == pc[c] = "recv"

CanReceive(c) == AtRecv(c) /\ TotalReceived < MaxRecv

Receive(c) == received' = [received EXCEPT ![c] = @ + 1]

\* ------------------------------------------------------------------ dispatch loop
\* an agent created without its create_session call
InitAgent_NoSession(c) ==
    /\ CanReceive(c)
    /\ Receive(c)
    /\ agents' = Append(agents, [websocket |-> c,
                                 session_id |-> CompositeSessionId(ident[c][1], ident[c][2]),
                                 user_id |-> ident[c][1], device_id |-> ident[c][2],
                                 queue |-> <<>>, conn |-> c])
    /\ active_agents' = [active_agents EXCEPT ![c] = Len(agents) + 1]
    /\ message_processors' = [message_processors EXCEPT ![c] = Len(agents) + 1]
    /\ Send(c, MsgAgentInitialized)
    /\ UNCHANGED <<pc, ident, response, workspace_session_uuid, active_connections,
                   active_tasks, tasks, sessions, events, clock, callers, fs>>

\* an init_agent that is refused when the connection has an agent
InitAgent_RejectsRepeat(c) ==
    /\ CanReceive(c)
    /\ Receive(c)
    /\ IF active_agents[c] # 0
         THEN /\ Send(c, MsgRequestError)
              /\ UNCHANGED <<sessions, agents, active_agents, message_processors>>
         ELSE LET user_id == ident[c][1]
                  device_id == ident[c][2]
                  id == CompositeSessionId(user_id, device_id)
              IN  /\ sessions' = CreateSession(sessions, id, workspace_session_uuid[c],
                                               user_id, device_id, clock)
                  /\ agents' = Append(agents,
                         [websocket |-> c, session_id |-> id, user_id |-> user_id,
                          device_id |-> device_id, queue |-> <<>>, conn |-> c])
                  /\ active_agents' = [active_agents EXCEPT ![c] = Len(agents) + 1]
                  /\ message_processors' =
                         [message_processors EXCEPT ![c] = Len(agents) + 1]
                  /\ Send(c, MsgAgentInitialized)
    /\ UNCHANGED <<pc, ident, response, workspace_session_uuid,
                   active_connections, active_tasks, tasks, events,
                   clock, callers, fs>>

\* msg_type == "init_agent"
InitAgent(c) ==
    /\ CanReceive(c)
    /\ Receive(c)
    /\ \E outcome \in {"ok", "db_fails", "agent_fails"} :
        LET user_id == ident[c][1]
            device_id == ident[c][2]
            id == CompositeSessionId(user_id, device_id)
            created == CreateSession(sessions, id, workspace_session_uuid[c], user_id,
                                     device_id, clock)
            agent == [websocket |-> c, session_id |-> id, user_id |-> user_id,
                      device_id |-> device_id, queue |-> <<>>, conn |-> c]
        IN  CASE outcome = "ok" ->
                   /\ sessions' = created
                   /\ agents' = Append(agents, agent)
                   /\ active_agents' = [active_agents EXCEPT ![c] = Len(agents) + 1]
                   /\ message_processors' =
                          [message_processors EXCEPT ![c] = Len(agents) + 1]
                   /\ Send(c, MsgAgentInitialized)
              [] outcome = "db_fails" ->
                   \* DatabaseManager() raises: except Exception in the loop
                   /\ Send(c, MsgRequestError)
                   /\ UNCHANGED <<sessions, agents, active_agents,
                                  message_processors>>
              [] outcome = "agent_fails" ->
                   \* the agent's construction raises after create_session
                   /\ sessions' = created
                   /\ Send(c, MsgRequestError)
                   /\ UNCHANGED <<agents, active_agents, message_processors>>
    /\ UNCHANGED <<pc, ident, response, workspace_session_uuid,
                   active_connections, active_tasks, tasks, events,
                   clock, callers, fs>>

\* msg_type == "query" with a Task that is not done: the error, then `continue`
QueryRejected(c) ==
    /\ CanReceive(c)
    /\ HasActiveTask(c)
    /\ Receive(c)
    /\ Send(c, MsgBusy)
    /\ UNCHANGED <<pc, ident, response, workspace_session_uuid,
                   active_connections, active_agents, active_tasks,
                   message_processors, tasks, agents, sessions, events, clock, callers, fs>>

\* the acknowledgment left out
QueryAccepted_NoAck(c) ==
    /\ CanReceive(c)
    /\ ~HasActiveTask(c)
    /\ Receive(c)
    /\ pc' = [pc EXCEPT ![c] = "spawn"]
    /\ UNCHANGED <<ident, response, workspace_session_uuid,
                   outbox, active_connections, active_agents, active_tasks,
                   message_processors, tasks, agents, sessions, events, clock, callers, fs>>

\* msg_type == "query" otherwise: the acknowledgment is sent (await send_json)
QueryAccepted(c) ==
    /\ CanReceive(c)
    /\ ~HasActiveTask(c)
    /\ Receive(c)
    /\ Send(c, MsgProcessing(Len(tasks[c]) + 1))
    /\ pc' = [pc EXCEPT ![c] = "spawn"]
    /\ UNCHANGED <<ident, response, workspace_session_uuid,
                   active_connections, active_agents, active_tasks,
                   message_processors, tasks, agents, sessions, events, clock, callers, fs>>

\* task = asyncio.create_task(run_agent_async(...)); active_tasks[websocket] = task
QuerySpawn(c) ==
    /\ pc[c] = "spawn"
    /\ tasks' = [tasks EXCEPT ![c] = Append(@, NewTask)]
    /\ active_tasks' = [active_tasks EXCEPT ![c] = Len(tasks[c]) + 1]
    /\ pc' = [pc EXCEPT ![c] = "recv"]
    /\ UNCHANGED <<ident, response, workspace_session_uuid,
                   received, outbox, active_connections, active_agents,
                   message_processors, agents, sessions, events, clock, callers, fs>>

\* a loop that answers a ping only while no query is being processed
Ping_OnlyWhenIdle(c) ==
    /\ CanReceive(c)
    /\ Receive(c)
    /\ IF HasActiveTask(c) THEN UNCHANGED outbox ELSE Send(c, MsgPong)
    /\ UNCHANGED <<pc, ident, response, workspace_session_uuid,
                   active_connections, active_agents, active_tasks,
                   message_processors, tasks, agents, sessions, events, clock, callers, fs>>

\* msg_type == "ping"
Ping(c) ==
    /\ CanReceive(c)
    /\ Receive(c)
    /\ Send(c, MsgPong)
    /\ UNCHANGED <<pc, ident, response, workspace_session_uuid,
                   active_connections, active_agents, active_tasks,
                   message_processors, tasks, agents, sessions, events, clock, callers, fs>>

\* "Query canceled" reported without task.cancel()
Cancel_OnlyReports(c) ==
    /\ CanReceive(c)
    /\ Receive(c)
    /\ Send(c, IF HasActiveTask(c) THEN MsgCanceled ELSE MsgNoActiveQuery)
    /\ UNCHANGED <<pc, ident, response, workspace_session_uuid,
                   active_connections, active_agents, active_tasks,
                   message_processors, tasks, agents, sessions, events, clock, callers, fs>>

\* msg_type == "cancel"
Cancel(c) ==
    /\ CanReceive(c)
    /\ Receive(c)
    /\ IF HasActiveTask(c)
         THEN /\ tasks' = [tasks EXCEPT ![c][active_tasks[c]].cancel = TRUE]
              /\ Send(c, MsgCanceled)
         ELSE /\ Send(c, MsgNoActiveQuery)
              /\ UNCHANGED tasks
    /\ UNCHANGED <<pc, ident, response, workspace_session_uuid,
                   active_connections, active_agents, active_tasks,
                   message_processors, agents, sessions, events, clock, callers, fs>>

\* the "type" values of a message that no branch of the loop handles: another
\* word, or no "type" at all (message.get("type") is None)
UnknownTypes == {"bogus", None}

\* the else branch: msg_type is none of the handled types
UnknownType(c) ==
    /\ CanReceive(c)
    /\ Receive(c)
    /\ \E msg_type \in UnknownTypes : Send(c, MsgUnknownType(msg_type))
    /\ UNCHANGED <<pc, ident, response, workspace_session_uuid,
                   active_connections, active_agents, active_tasks,
                   message_processors, tasks, agents, sessions, events, clock, callers, fs>>

\* a loop without the `except json.JSONDecodeError` clause: the error is handled
\* by `except Exception`
InvalidJson_Unhandled(c) ==
    /\ CanReceive(c)
    /\ Receive(c)
    /\ Send(c, MsgRequestError)
    /\ UNCHANGED <<pc, ident, response, workspace_session_uuid,
                   active_connections, active_agents, active_tasks,
                   message_processors, tasks, agents, sessions, events, clock, callers, fs>>

\* json.loads(data) raises: except json.JSONDecodeError
InvalidJson(c) ==
    /\ CanReceive(c)
    /\ Receive(c)
    /\ Send(c, MsgInvalidJson)
    /\ UNCHANGED <<pc, ident, response, workspace_session_uuid,
                   active_connections, active_agents, active_tasks,
                   message_processors, tasks, agents, sessions, events, clock, callers, fs>>

\* the structures cleanup_connection works on
Bookkeeping ==
    [active_connections |-> active_connections, active_agents |-> active_agents,
     active_tasks |-> active_tasks, message_processors |-> message_processors,
     tasks |-> tasks, agents |-> agents]

\* a cleanup_connection that runs each of its statements without testing first
CleanupGuards_Unguarded(B, c) ==
    [connection |-> TRUE, agent |-> TRUE, processor |-> TRUE, task |-> TRUE]

\* the tests of cleanup_connection: `websocket in active_connections`,
\* `websocket in active_agents`, `websocket in message_processors` inside it, and
\* `websocket in active_tasks and not active_tasks[websocket].done()`
CleanupGuards(B, c) ==
    [connection |-> c \in B.active_connections,
     agent |-> B.active_agents[c] # 0,
     processor |-> B.active_agents[c] # 0 /\ B.message_processors[c] # 0,
     task |-> B.active_tasks[c] # 0 /\ ~Done(B.tasks[c][B.active_tasks[c]])]

\* a statement of cleanup_connection is run on a key that is not there:
\* set.remove, active_agents[websocket], del message_processors[websocket],
\* active_tasks[websocket] and del active_agents[websocket] raise KeyError
CleanupRaises(B, c) ==
    LET g == CleanupGuards(B, c)
    IN  \/ g.connection /\ c \notin B.active_connections
        \/ g.agent /\ B.active_agents[c] = 0
        \/ g.processor /\ B.message_processors[c] = 0
        \/ g.task /\ B.active_tasks[c] = 0

\* cleanup_connection(websocket): the structures it leaves
Cleanup(B, c) ==
    LET g == CleanupGuards(B, c)
    IN  [active_connections |-> IF g.connection THEN B.active_connections \ {c}
                                ELSE B.active_connections,
         agents |-> IF g.agent
                      THEN [B.agents EXCEPT ![B.active_agents[c]].websocket = None]
                      ELSE B.agents,
         message_processors |-> IF g.processor
                                  THEN [B.message_processors EXCEPT ![c] = 0]
                                  ELSE B.message_processors,
         tasks |-> IF g.task
                     THEN [B.tasks EXCEPT ![c][B.active_tasks[c]].cancel = TRUE]
                     ELSE B.tasks,
         active_tasks |-> IF g.task THEN [B.active_tasks EXCEPT ![c] = 0]
                          ELSE B.active_tasks,
         active_agents |-> IF g.agent THEN [B.active_agents EXCEPT ![c] = 0]
                           ELSE B.active_agents]

\* cleanup_connection(websocket) called by the handler
CleanupConnection(c) ==
    LET B == Cleanup(Bookkeeping, c)
    IN  /\ active_connections' = B.active_connections
        /\ active_agents' = B.active_agents
        /\ active_tasks' = B.active_tasks
        /\ message_processors' = B.message_processors
        /\ tasks' = B.tasks
        /\ agents' = B.agents

\* receive_text (or a send of the handler) raises WebSocketDisconnect
Disconnect(c) ==
    /\ pc[c] \in {"recv", "spawn"}
    /\ CleanupConnection(c)
    /\ pc' = [pc EXCEPT ![c] = "closed"]
    /\ UNCHANGED <<ident, response, workspace_session_uuid,
                   received, outbox, sessions, events, clock, callers, fs>>

\* the exception of a handler leaves the loop: the handler ends as on a disconnect
NotAnObject_Propagates(c) ==
    /\ CanReceive(c)
    /\ Receive(c)
    /\ CleanupConnection(c)
    /\ pc' = [pc EXCEPT ![c] = "closed"]
    /\ UNCHANGED <<ident, response, workspace_session_uuid,
                   outbox, sessions, events, clock, callers, fs>>

\* json.loads(data) is not a dict (a list, a number, a string, null):
\* message.get raises AttributeError, handled by `except Exception`
NotAnObject(c) ==
    /\ CanReceive(c)
    /\ Receive(c)
    /\ Send(c, MsgRequestError)
    /\ UNCHANGED <<pc, ident, response, workspace_session_uuid,
                   active_connections, active_agents, active_tasks,
                   message_processors, tasks, agents, sessions, events, clock, callers, fs>>

\* msg_type == "enhance_prompt": the loop calls `await enhance_user_prompt(...)`
\* and is suspended in it until the language model has answered
EnhancePrompt(c) ==
    /\ CanReceive(c)
    /\ Receive(c)
    /\ pc' = [pc EXCEPT ![c] = "enhance"]
    /\ UNCHANGED <<ident, response, workspace_session_uuid,
                   outbox, active_connections, active_agents, active_tasks,
                   message_processors, tasks, agents, sessions, events, clock,
                   callers, fs>>

MsgPromptGenerated == Msg("prompt_generated", "enhanced", 0)
MsgEnhanceFailed == Msg("error", "enhancer message", 0)

\* enhance_user_prompt returns (with a prompt or without) or raises, and the loop
\* sends the answer; when the client has gone meanwhile the send raises
\* WebSocketDisconnect and the handler ends in cleanup_connection
EnhanceReturns(c) ==
    /\ pc[c] = "enhance"
    /\ \E outcome \in {"generated", "failed", "raised", "disconnected"} :
          IF outcome = "disconnected"
            THEN /\ CleanupConnection(c)
                 /\ pc' = [pc EXCEPT ![c] = "closed"]
                 /\ UNCHANGED outbox
            ELSE /\ Send(c, CASE outcome = "generated" -> MsgPromptGenerated
                               [] outcome = "failed" -> MsgEnhanceFailed
                               [] outcome = "raised" -> MsgRequestError)
                 /\ pc' = [pc EXCEPT ![c] = "recv"]
                 /\ UNCHANGED <<active_connections, active_agents, active_tasks,
                                message_processors, tasks, agents>>
    /\ UNCHANGED <<ident, response, workspace_session_uuid,
                   received, sessions, events, clock, callers, fs>>

\* ------------------------------------------------------------------ run_agent_async
\* a finally clause that empties the map: active_tasks.clear()
DropTaskReference_ClearsMap(c) == active_tasks' = [d \in Conns |-> 0]

\* The finally clause: `if websocket in active_tasks: del active_tasks[websocket]`
DropTaskReference(c) == active_tasks' = [active_tasks EXCEPT ![c] = 0]

Event(type, c, t) == [type |-> type, conn |-> c, task |-> t]

\* a Task that starts the run without putting the user message on the queue
TaskStart_NoUserMessage(c, t) ==
    /\ t \in DOMAIN tasks[c]
    /\ tasks[c][t].st = "created"
    /\ ~tasks[c][t].cancel
    /\ IF active_agents[c] = 0
         THEN /\ tasks' = [tasks EXCEPT ![c][t].st = "noagent"]
              /\ UNCHANGED agents
         ELSE /\ UNCHANGED agents
              /\ tasks' = [tasks EXCEPT ![c][t] =
                                [@ EXCEPT !.st = "running", !.agent = active_agents[c],
                                          !.run = "pending"]]
    /\ UNCHANGED <<pc, ident, response, workspace_session_uuid,
                   received, outbox, active_connections, active_agents,
                   active_tasks, message_processors, sessions, events, clock, callers, fs>>

\* First step of the Task: agent = active_agents.get(websocket); without an agent
\* the Task goes to send its error, otherwise the user message is put on the
\* agent's queue and the agent's run is handed to a worker thread.
TaskStart(c, t) ==
    /\ t \in DOMAIN tasks[c]
    /\ tasks[c][t].st = "created"
    /\ ~tasks[c][t].cancel
    /\ IF active_agents[c] = 0
         THEN /\ tasks' = [tasks EXCEPT ![c][t].st = "noagent"]
              /\ UNCHANGED agents
         ELSE /\ agents' = [agents EXCEPT ![active_agents[c]].queue =
                                Append(@, Event("user_message", c, t))]
              /\ tasks' = [tasks EXCEPT ![c][t] =
                                [@ EXCEPT !.st = "running", !.agent = active_agents[c],
                                          !.run = "pending"]]
    /\ UNCHANGED <<pc, ident, response, workspace_session_uuid,
                   received, outbox, active_connections, active_agents,
                   active_tasks, message_processors, sessions, events, clock, callers, fs>>

\* agent.run_agent, in its worker thread, puts an event on the agent's queue
AgentEmits(c, t) ==
    /\ t \in DOMAIN tasks[c]
    /\ tasks[c][t].st = "running"
    /\ tasks[c][t].run = "pending"
    /\ TotalEmitted < MaxEmit
    /\ tasks' = [tasks EXCEPT ![c][t].emitted = @ + 1]
    /\ agents' = [agents EXCEPT ![tasks[c][t].agent].queue =
                      Append(@, Event("agent_event", c, t))]
    /\ UNCHANGED <<pc, ident, response, workspace_session_uuid,
                   received, outbox, active_connections, active_agents,
                   active_tasks, message_processors, sessions, events, clock,
                   callers, fs>>

\* agent.run_agent returns or raises in its worker thread; the Task is woken
\* later.  (The result of a run whose Task was asked to cancel is never read.)
AgentRunEnds(c, t) ==
    /\ t \in DOMAIN tasks[c]
    /\ tasks[c][t].st = "running"
    /\ tasks[c][t].run = "pending"
    /\ ~tasks[c][t].cancel
    /\ \E result \in {"ok", "raised"} :
          tasks' = [tasks EXCEPT ![c][t].run = result]
    /\ UNCHANGED <<pc, ident, response, workspace_session_uuid,
                   received, outbox, active_connections, active_agents,
                   active_tasks, message_processors, agents, sessions, events, clock,
                   callers, fs>>

\* an except clause that does not report
TaskResumes_SwallowsError(c, t) ==
    /\ t \in DOMAIN tasks[c]
    /\ tasks[c][t].st = "running"
    /\ tasks[c][t].run # "pending"
    /\ ~tasks[c][t].cancel
    /\ tasks' = [tasks EXCEPT ![c][t].st = "completed"]
    /\ DropTaskReference(c)
    /\ UNCHANGED <<pc, ident, response, workspace_session_uuid,
                   received, outbox, active_connections, active_agents,
                   message_processors, agents, sessions, events, clock, callers, fs>>

\* The Task resumes from `await anyio.to_thread.run_sync(...)`: on a normal return
\* the finally clause runs and the Task is done; on an exception the except clause
\* goes to send the error.
TaskResumes(c, t) ==
    /\ t \in DOMAIN tasks[c]
    /\ tasks[c][t].st = "running"
    /\ tasks[c][t].run # "pending"
    /\ ~tasks[c][t].cancel
    /\ IF tasks[c][t].run = "ok"
         THEN /\ tasks' = [tasks EXCEPT ![c][t].st = "completed"]
              /\ DropTaskReference(c)
         ELSE /\ tasks' = [tasks EXCEPT ![c][t].st = "report"]
              /\ UNCHANGED active_tasks
    /\ UNCHANGED <<pc, ident, response, workspace_session_uuid,
                   received, outbox, active_connections, active_agents,
                   message_processors, agents, sessions, events, clock, callers, fs>>

\* `await websocket.send_json(error)` of the Task completes: in the no-agent branch
\* the coroutine returns (before the try block), in the except clause the finally
\* clause follows.
TaskSendsError(c, t) ==
    /\ t \in DOMAIN tasks[c]
    /\ tasks[c][t].st \in {"noagent", "report"}
    /\ ~tasks[c][t].cancel
    /\ pc[c] # "closed"
    /\ tasks' = [tasks EXCEPT ![c][t].st = "completed"]
    /\ IF tasks[c][t].st = "noagent"
         THEN /\ Send(c, MsgNoAgent(t))
              /\ UNCHANGED active_tasks
         ELSE /\ Send(c, MsgRunError(t))
              /\ DropTaskReference(c)
    /\ UNCHANGED <<pc, ident, response, workspace_session_uuid,
                   received, active_connections, active_agents,
                   message_processors, agents, sessions, events, clock, callers, fs>>

\* The Task's next step after task.cancel(): CancelledError is thrown into the
\* coroutine where it is suspended (or the coroutine is never started).  It is no
\* Exception, so only the finally clause runs, and only inside the try block.  A
\* send_json that was under way has written its message (sent) or not.
TaskCancelled(c, t) ==
    /\ t \in DOMAIN tasks[c]
    /\ ~Done(tasks[c][t])
    /\ tasks[c][t].cancel
    /\ tasks' = [tasks EXCEPT ![c][t].st = "cancelled"]
    /\ IF tasks[c][t].st \in {"running", "report"}
         THEN DropTaskReference(c)
         ELSE UNCHANGED active_tasks
    /\ \E sent \in BOOLEAN :
        /\ sent => tasks[c][t].st \in {"noagent", "report"} /\ pc[c] # "closed"
        /\ IF sent
             THEN Send(c, IF tasks[c][t].st = "noagent" THEN MsgNoAgent(t)
                                                         ELSE MsgRunError(t))
             ELSE UNCHANGED outbox
    /\ UNCHANGED <<pc, ident, response, workspace_session_uuid,
                   received, active_connections, active_agents,
                   message_processors, agents, sessions, events, clock, callers, fs>>

\* ------------------------------------------------------------------ event store
\* a write keyed by the session (replace_one with upsert) in place of insert_one
SaveEvent_ReplacesBySession(E, session_id, user_id, device_id, event, now) ==
    LET doc == [session_id |-> session_id, user_id |-> user_id, device_id |-> device_id,
                timestamp |-> now, event_type |-> event.type, event_payload |-> event]
    IN  IF \E i \in DOMAIN E : E[i].session_id = session_id
          THEN [i \in DOMAIN E |-> IF E[i].session_id = session_id THEN doc ELSE E[i]]
          ELSE Append(E, doc)

\* DatabaseManager.save_event: insert_one with timestamp = datetime.utcnow()
SaveEvent(E, session_id, user_id, device_id, event, now) ==
    Append(E, [session_id |-> session_id, user_id |-> user_id, device_id |-> device_id,
               timestamp |-> now, event_type |-> event.type, event_payload |-> event])

\* One turn of the agent's message processor (BaseAgent._process_messages): take
\* the next event of the queue, save it, and send it to the websocket unless it is
\* a user message or the agent has no websocket.
ProcessorStep(a) ==
    /\ a \in DOMAIN agents
    /\ agents[a].queue # <<>>
    /\ LET agent == agents[a]
           event == Head(agent.queue)
       IN  /\ agents' = [agents EXCEPT ![a].queue = Tail(@)]
           /\ events' = SaveEvent(events, agent.session_id, agent.user_id,
                                  agent.device_id, event, clock)
           /\ IF event.type # "user_message" /\ agent.websocket # None
                THEN Send(agent.websocket, MsgAgentEvent(event.task))
                ELSE UNCHANGED outbox
    /\ UNCHANGED <<pc, ident, response, workspace_session_uuid,
                   received, active_connections, active_agents,
                   active_tasks, message_processors, tasks, sessions, clock, callers, fs>>

\* the server clock advances
Tick ==
    /\ clock < MaxClock
    /\ clock' = clock + 1
    /\ UNCHANGED <<gatewayVars, sessions, events, callers, fs>>

\* ------------------------------------------------------------------ gateway
Next ==
    \/ \E c \in Conns : Handshake(c)
    \/ \E c \in Conns : InitAgent(c)
    \/ \E c \in Conns : QueryRejected(c)
    \/ \E c \in Conns : QueryAccepted(c)
    \/ \E c \in Conns : QuerySpawn(c)
    \/ \E c \in Conns : Ping(c)
    \/ \E c \in Conns : Cancel(c)
    \/ \E c \in Conns : Disconnect(c)
    \/ \E c \in Conns, t \in TaskIds : TaskStart(c, t)
    \/ \E c \in Conns, t \in TaskIds : AgentRunEnds(c, t)
    \/ \E c \in Conns, t \in TaskIds : TaskResumes(c, t)
    \/ \E c \in Conns, t \in TaskIds : TaskSendsError(c, t)
    \/ \E c \in Conns, t \in TaskIds : TaskCancelled(c, t)

Spec == Init /\ [][Next]_vars

\* ------------------------------------------------------------------ gateway with persistence
\* The gateway together with the agents' runs emitting events and the agents'
\* message processors saving and forwarding them.
NextPersist ==
    \/ Next
    \/ \E c \in Conns, t \in TaskIds : AgentEmits(c, t)
    \/ \E a \in AgentIds : ProcessorStep(a)

SpecPersist == Init /\ [][NextPersist]_vars

\* ------------------------------------------------------------------ gateway with malformed messages
\* The gateway whose clients also send text that is no JSON, JSON that is no
\* object, and objects whose "type" no branch handles.
NextProtocol ==
    \/ Next
    \/ \E c \in Conns : InvalidJson(c)
    \/ \E c \in Conns : NotAnObject(c)
    \/ \E c \in Conns : UnknownType(c)

SpecProtocol == Init /\ [][NextProtocol]_vars

\* ------------------------------------------------------------------ gateway with the prompt enhancer
NextEnhance ==
    \/ Next
    \/ \E c \in Conns : EnhancePrompt(c)
    \/ \E c \in Conns : EnhanceReturns(c)

SpecEnhance == Init /\ [][NextEnhance]_vars

\* ------------------------------------------------------------------ fair processors
\* Each agent's message processor is a Task of the event loop: when its queue has
\* an event, it takes its turn.
SpecPersistFair == SpecPersist /\ \A a \in AgentIds : WF_vars(ProcessorStep(a))

\* ------------------------------------------------------------------ fair scheduling
\* The event loop runs every coroutine that is ready: a Task that can take a step
\* takes it.
TaskStep(c, t) ==
    \/ TaskStart(c, t)
    \/ TaskResumes(c, t)
    \/ TaskSendsError(c, t)
    \/ TaskCancelled(c, t)

SpecFair == Spec /\ \A c \in Conns, t \in TaskIds : WF_vars(TaskStep(c, t))

\* ------------------------------------------------------------------ properties
Count(seq, m) == Cardinality({i \in DOMAIN seq : seq[i] = m})

Last(seq) == seq[Len(seq)]

\* the Tasks of a connection that are neither Completed nor Cancelled
NonTerminalTasks(c) == {t \in DOMAIN tasks[c] : ~Done(tasks[c][t])}

\* the dispatch loop reads a `query`
QueryRead(c) == QueryRejected(c) \/ QueryAccepted(c)

\* C1: in every reachable state each connection has at most one Task that is
\* not terminal.
C1_SingleFlight == \A c \in Conns : Cardinality(NonTerminalTasks(c)) <= 1

\* a second query was accepted on a connection and its Task is the only live one
C1_Witness ==
    \E c \in Conns : Len(tasks[c]) >= 2 /\ NonTerminalTasks(c) = {Len(tasks[c])}

\* C2: a query read while a Task of the connection is not terminal (its
\* cancellation requested or not) sends exactly the error "A query is already
\* being processed": no ack, no new Task, the recorded Task unchanged, and the
\* loop goes on reading.
C2_BusyQueryRejected ==
    [][\A c \in Conns :
          (QueryRead(c) /\ NonTerminalTasks(c) # {}) =>
              /\ outbox'[c] = Append(outbox[c], MsgBusy)
              /\ tasks' = tasks
              /\ active_tasks' = active_tasks
              /\ pc'[c] = "recv"]_vars

\* a query was just rejected while the Task's cancellation was pending
C2_Witness ==
    \E c \in Conns :
        /\ outbox[c] # <<>>
        /\ Last(outbox[c]) = MsgBusy
        /\ \E t \in NonTerminalTasks(c) : tasks[c][t].cancel /\ active_tasks[c] = t

\* C3: the ack of a query is on the outbound stream before its Task exists, and
\* so before every message the Task sends.
C3_AckBeforeTask ==
    \A c \in Conns :
        /\ \A t \in DOMAIN tasks[c] : Count(outbox[c], MsgProcessing(t)) = 1
        /\ \A j \in DOMAIN outbox[c] :
              (outbox[c][j].task # 0 /\ outbox[c][j].type # "processing") =>
                  \E i \in 1..(j - 1) : outbox[c][i] = MsgProcessing(outbox[c][j].task)

\* a Task has sent its error and an event of a run has been forwarded
C3_Witness ==
    \E c \in Conns : \E j, k \in DOMAIN outbox[c] :
        /\ outbox[c][j].task # 0 /\ outbox[c][j].type = "error"
        /\ outbox[c][k].task # 0 /\ outbox[c][k].type = "agent_event"

\* C4: a cancel read while the connection has a Task that is not terminal
\* requests the cancellation of that Task and sends `system` "Query canceled";
\* a Task whose cancellation was requested eventually is terminal.
C4_CancelTerminates ==
    /\ [][\A c \in Conns :
            (Cancel(c) /\ NonTerminalTasks(c) # {}) =>
                /\ outbox'[c] = Append(outbox[c], MsgCanceled)
                /\ \A t \in NonTerminalTasks(c) : tasks'[c][t].cancel]_vars
    /\ \A c \in Conns, t \in TaskIds :
           (t \in DOMAIN tasks[c] /\ tasks[c][t].cancel) ~>
               (t \in DOMAIN tasks[c] /\ Done(tasks[c][t]))

\* "Query canceled" was sent and the Task has ended Cancelled
C4_Witness ==
    \E c \in Conns : \E t \in DOMAIN tasks[c] :
        /\ Count(outbox[c], MsgCanceled) >= 1
        /\ pc[c] = "recv"
        /\ tasks[c][t].cancel
        /\ tasks[c][t].st = "cancelled"

\* C5: a cancel read while the connection has no Task that is not terminal sends
\* exactly the error "No active query to cancel"; the loop goes on reading and the
\* bound agent, the task slot, the processor and the live set are unchanged.
C5_IdleCancelRejected ==
    [][\A c \in Conns :
          (Cancel(c) /\ NonTerminalTasks(c) = {}) =>
              /\ outbox'[c] = Append(outbox[c], MsgNoActiveQuery)
              /\ pc'[c] = "recv"
              /\ UNCHANGED <<active_connections, active_agents, active_tasks,
                             message_processors, tasks, agents>>]_vars

\* the cancel was rejected although the map still holds a (finished) Task
C5_Witness ==
    \E c \in Conns :
        /\ outbox[c] # <<>>
        /\ Last(outbox[c]) = MsgNoActiveQuery
        /\ active_tasks[c] # 0
        /\ NonTerminalTasks(c) = {}

\* C6: on an open connection whose Tasks are all terminal, the next query is
\* acknowledged with `processing` and goes on to start a Task; it is not rejected.
C6_SlotReleased ==
    [][\A c \in Conns :
          (QueryRead(c) /\ tasks[c] # <<>> /\ NonTerminalTasks(c) = {}) =>
              /\ outbox'[c] = Append(outbox[c], MsgProcessing(Len(tasks[c]) + 1))
              /\ pc'[c] = "spawn"]_vars

\* after a Task that was cancelled or whose run raised, a second query was
\* accepted on the connection, and none was rejected
C6_Witness ==
    \E c \in Conns :
        /\ Len(tasks[c]) >= 2
        /\ tasks[c][1].st = "cancelled" \/ tasks[c][1].run = "raised"
        /\ Count(outbox[c], MsgBusy) = 0

\* the number of MsgRunError(t) sent to c
RunErrors(c, t) == Count(outbox[c], MsgRunError(t))

\* C7 as stated: a Task whose agent's run raised has, once it is terminal,
\* reported exactly one error to its connection (while that is still attached).
C7_RaisedRunReportedOnce ==
    \A c \in active_connections : \A t \in DOMAIN tasks[c] :
        (Done(tasks[c][t]) /\ tasks[c][t].run = "raised") => RunErrors(c, t) = 1

\* C7, amended: a Task whose agent's run raised reports exactly one "Error running
\* agent" error unless it is cancelled before the report is sent, and never more
\* than one; the error is sent only for a run that raised, the Task is terminal
\* once it is sent, and every Task answers an acknowledged query of its own.
C7_RaisedRunReported ==
    \A c \in Conns :
        /\ \A t \in DOMAIN tasks[c] :
              /\ (tasks[c][t].st = "completed" /\ tasks[c][t].run = "raised")
                    => RunErrors(c, t) = 1
              /\ RunErrors(c, t) <= 1
              /\ RunErrors(c, t) = 1
                    => (Done(tasks[c][t]) /\ tasks[c][t].run = "raised")
        /\ \A j \in DOMAIN outbox[c] :
              outbox[c][j].message = "Error running agent: ..."
                  => outbox[c][j].task \in DOMAIN tasks[c]
        /\ Len(tasks[c]) <=
              Cardinality({j \in DOMAIN outbox[c] : outbox[c][j].type = "processing"})

\* a run raised, its error was reported, the Task is Completed
C7_Witness ==
    \E c \in Conns : \E t \in DOMAIN tasks[c] :
        /\ tasks[c][t].st = "completed"
        /\ tasks[c][t].run = "raised"
        /\ RunErrors(c, t) = 1

\* C8: while a Task of the connection is not terminal, the dispatch loop that
\* waits for its next message handles a ping, a cancel or an init_agent at once.
C8_LoopNotBlocked ==
    \A c \in Conns :
        (pc[c] = "recv" /\ NonTerminalTasks(c) # {} /\ TotalReceived < MaxRecv) =>
            /\ ENABLED Ping(c)
            /\ ENABLED Cancel(c)
            /\ ENABLED InitAgent(c)

\* a pong was sent while the Task was running
C8_Witness ==
    \E c \in Conns :
        /\ outbox[c] # <<>>
        /\ Last(outbox[c]) = MsgPong
        /\ \E t \in NonTerminalTasks(c) : tasks[c][t].st = "running"

\* ------------------------------------------------------------------ session store, shared
\* DatabaseManager.create_session as the store sees it: two writes, update_many
\* and then update_one, each atomic, with the writes of other clients in between.
\* The arguments are those of create_agent_for_connection: the composite id of
\* the pair and the uuid of the connection's workspace.

\* now = datetime.utcnow(); sessions_collection.update_many(...)
CreateSessionDeactivates(w) ==
    /\ callers[w].pc = "idle"
    /\ Len(callers[w].done) < MaxCalls
    /\ \E p \in AllIdentities :
        /\ sessions' = DeactivateActive(sessions, p[1], p[2], clock)
        /\ callers' = [callers EXCEPT ![w] =
              [pc |-> "deactivated", id |-> CompositeSessionId(p[1], p[2]),
               uuid |-> WorkspaceUuid(w, Len(callers[w].done) + 1),
               user_id |-> p[1], device_id |-> p[2], now |-> clock,
               done |-> callers[w].done]]
    /\ UNCHANGED <<gatewayVars, events, clock, fs>>

\* sessions_collection.update_one(..., upsert=True); return
CreateSessionUpserts(w) ==
    /\ callers[w].pc = "deactivated"
    /\ sessions' = UpsertSession(sessions, callers[w].id, callers[w].uuid,
                                 callers[w].user_id, callers[w].device_id,
                                 callers[w].now)
    /\ callers' = [callers EXCEPT ![w] = IdleCaller(Append(callers[w].done, callers[w].id))]
    /\ UNCHANGED <<gatewayVars, events, clock, fs>>

NextStore ==
    \/ \E w \in StoreClients : CreateSessionDeactivates(w)
    \/ \E w \in StoreClients : CreateSessionUpserts(w)
    \/ Tick

SpecStore == Init /\ [][NextStore]_vars

\* the Session documents of a (user_id, device_id) pair that are active
ActiveSessions(p) ==
    {d \in sessions : d.user_id = p[1] /\ d.device_id = p[2] /\ d.is_active}

\* the Session documents with a composite id
SessionsWithId(id) == {d \in sessions : d.id = id}

\* the completed create_session calls for a composite id
CompletedCalls(id) ==
    SumOver([w \in StoreClients |-> Count(callers[w].done, id)], StoreClients)

SessionIds == {CompositeSessionId(p[1], p[2]) : p \in AllIdentities}

\* C9: for every (user_id, device_id) pair at most one Session document of the
\* pair is active, in every state of the store, those between the two writes of
\* interleaved create_session calls included.
C9_OneActiveSession == \A p \in AllIdentities : Cardinality(ActiveSessions(p)) <= 1

\* a client is between its two writes for a pair whose session another client
\* has activated since
C9_Witness ==
    \E w \in StoreClients :
        /\ callers[w].pc = "deactivated"
        /\ \E d \in ActiveSessions(<<callers[w].user_id, callers[w].device_id>>) :
              d.workspace_session_uuid[1] # w

\* C10: any number of create_session calls with one composite id leave exactly one
\* Session document with that id, and the collection grows (by one document) only
\* in a call whose id no document has yet.
C10_IdempotentUpsert ==
    /\ [](\A id \in SessionIds :
            /\ Cardinality(SessionsWithId(id)) <= 1
            /\ CompletedCalls(id) >= 1 => Cardinality(SessionsWithId(id)) = 1)
    /\ [][/\ Cardinality(sessions') >= Cardinality(sessions)
          /\ Cardinality(sessions') > Cardinality(sessions) =>
                \E w \in StoreClients :
                    /\ CreateSessionUpserts(w)
                    /\ SessionsWithId(callers[w].id) = {}
                    /\ Cardinality(sessions') = Cardinality(sessions) + 1]_vars

\* three calls with one composite id were completed and one document has it
C10_Witness ==
    \E id \in SessionIds :
        CompletedCalls(id) >= 3 /\ Cardinality(SessionsWithId(id)) = 1

\* C11 as stated: the deactivation write of a create_session call for key k
\* changes only documents of the call's pair whose key is not k: the document k
\* is not deactivated and its deactivated_at is not stamped by its own call.
C11_DeactivatesOnlyOthers ==
    [][\A w \in StoreClients :
          CreateSessionDeactivates(w) =>
              \A d \in sessions :
                  d \notin sessions' =>
                      /\ d.user_id = callers'[w].user_id
                      /\ d.device_id = callers'[w].device_id
                      /\ d.id # callers'[w].id]_vars

\* C12: the upsert of a create_session call for key k leaves exactly one document
\* k, active, with last_activated_at the time of the call and the workspace of
\* the call; its created_at is the time of the call if k was absent and is
\* unchanged otherwise.
C12_ReactivationKeepsCreatedAt ==
    [][\A w \in StoreClients :
          CreateSessionUpserts(w) =>
              LET k == callers[w].id
                  new == {d \in sessions' : d.id = k}
              IN  /\ Cardinality(new) = 1
                  /\ \A d \in new :
                        /\ d.is_active
                        /\ d.last_activated_at = callers[w].now
                        /\ d.workspace_session_uuid = callers[w].uuid
                        /\ d.user_id = callers[w].user_id
                        /\ d.device_id = callers[w].device_id
                        /\ SessionsWithId(k) = {} => d.created_at = callers[w].now
                        /\ \A o \in SessionsWithId(k) : d.created_at = o.created_at]_vars

\* a session created at one time has been reactivated at a later time by a
\* completed call
C12_Witness ==
    \E d \in sessions :
        /\ d.is_active
        /\ d.last_activated_at > d.created_at
        /\ CompletedCalls(d.id) >= 2

\* ------------------------------------------------------------------ event log
\* The events collection as its clients see it: save_event calls of the agents'
\* processors, for any session, while the server clock advances.

\* db_manager.save_event(session_id, user_id, device_id, event)
SaveEventCall ==
    /\ Len(events) < MaxLog
    /\ \E p \in AllIdentities, type \in {"user_message", "agent_event"} :
          events' = SaveEvent(events, CompositeSessionId(p[1], p[2]), p[1], p[2],
                              Event(type, None, 0), clock)
    /\ UNCHANGED <<gatewayVars, sessions, clock, callers, fs>>

NextLog ==
    \/ SaveEventCall
    \/ Tick

SpecLog == Init /\ [][NextLog]_vars

\* the documents of E (by position, which is the order of insertion) with a session_id
EventsOf(E, session_id) == {i \in DOMAIN E : E[i].session_id = session_id}

\* get_events_for_session(session_id) with its defaults (no limit, ascending, no
\* type filter): find({"session_id": session_id}).sort("timestamp", ASCENDING).
\* The sort has no second key, and the order in which the store returns documents
\* with equal timestamps is not defined: every list of the matching documents
\* with non-decreasing timestamps is a possible result.
GetEventsForSession(E, session_id) ==
    LET found == EventsOf(E, session_id)
        n == Cardinality(found)
    IN  {r \in [1..n -> found] :
            /\ \A i, j \in 1..n : i # j => r[i] # r[j]
            /\ \A i, j \in 1..n : i < j => E[r[i]].timestamp <= E[r[j]].timestamp}

\* C13 as stated: every list get_events_for_session can return for a session is in
\* non-decreasing timestamp order and in the order of insertion, events with equal
\* timestamps included.
C13_ListedInInsertionOrder ==
    \A session_id \in SessionIds :
        \A r \in GetEventsForSession(events, session_id) :
            \A i, j \in DOMAIN r :
                i < j => /\ events[r[i]].timestamp <= events[r[j]].timestamp
                         /\ r[i] < r[j]

\* C14: the event log only grows at its end: whatever the gateway does (events
\* saved, sessions created or reactivated, Tasks cancelled, connections cleaned
\* up), every stored event stays stored, in place and unchanged.
C14_AppendOnly ==
    [][/\ Len(events') >= Len(events)
       /\ \A i \in DOMAIN events : events'[i] = events[i]]_vars

\* the log holds two events of a Task that has since been cancelled by the cleanup
\* of its closed connection
C14_Witness ==
    \E c \in Conns : \E t \in DOMAIN tasks[c] :
        /\ tasks[c][t].st = "cancelled"
        /\ pc[c] = "closed"
        /\ \E i, j \in DOMAIN events :
              /\ i < j
              /\ events[i].event_payload.conn = c /\ events[i].event_payload.task = t
              /\ events[j].event_payload.conn = c /\ events[j].event_payload.task = t

\* ------------------------------------------------------------------ handshake properties
\* the handshake of c is over
Shaken(c) == pc[c] # "idle"

\* the messages of a type sent to c
CountType(c, type) == Cardinality({j \in DOMAIN outbox[c] : outbox[c][j].type = type})

\* nothing of the gateway is bound to c, and c has dispatched nothing
NeverServed(c) ==
    /\ pc[c] = "closed"
    /\ c \notin active_connections
    /\ workspace_session_uuid[c] = <<>>
    /\ received[c] = 0
    /\ active_agents[c] = 0 /\ active_tasks[c] = 0 /\ message_processors[c] = 0
    /\ tasks[c] = <<>>
    /\ \A a \in DOMAIN agents : agents[a].conn # c

\* C15: when the identity resolver gives no identity, with the device header or
\* without, the connection gets exactly the error "User authentication failed."
\* and is closed: never live, no workspace, nothing dispatched, and the handshake
\* writes no Session.
C15_AuthFailureCloses ==
    /\ [](\A c \in Conns :
            (Shaken(c) /\ ident[c][1] = None) =>
                /\ outbox[c] = <<Msg("error", "User authentication failed.", 0)>>
                /\ NeverServed(c))
    /\ [][\A c \in Conns :
            (Handshake(c) /\ ident'[c][1] = None) =>
                sessions' = sessions /\ events' = events]_vars

\* the identity failed for a connection that sent its device header
C15_Witness ==
    \E c \in Conns :
        /\ Shaken(c) /\ ident[c][1] = None /\ ident[c][2] \in Devices
        /\ outbox[c] = <<MsgAuthFailed>>

\* C16: when the identity is resolved and the device header is absent (or empty),
\* the connection gets exactly the error "X-Device-ID header is required and was
\* not found." and is closed: never live, no workspace, nothing dispatched, and
\* the handshake writes no Session.
C16_MissingDeviceCloses ==
    /\ [](\A c \in Conns :
            (Shaken(c) /\ ident[c][1] # None /\ ident[c][2] \in {None, ""}) =>
                /\ outbox[c] =
                      <<Msg("error", "X-Device-ID header is required and was not found.", 0)>>
                /\ NeverServed(c))
    /\ [][\A c \in Conns :
            (Handshake(c) /\ ident'[c][1] # None /\ ident'[c][2] \in {None, ""}) =>
                sessions' = sessions /\ events' = events]_vars

\* an identified connection without the header was rejected while another
\* connection is being served
C16_Witness ==
    \E c, o \in Conns :
        /\ Shaken(c) /\ ident[c][1] \in Users /\ ident[c][2] = None
        /\ outbox[c] = <<MsgNoDevice>>
        /\ pc[o] = "recv" /\ sessions # {}

\* the handler of c is in its dispatch loop
InLoop(c) == pc[c] \in {"recv", "spawn"}

KeyOf(c) == ident[c][1] \o "_" \o ident[c][2]

\* the store holds an active Session document with the composite id of c
HasActiveSession(c) == \E d \in sessions : d.id = KeyOf(c) /\ d.is_active

\* C18 as stated: once the handshake of a connection has succeeded
\* (connection_established sent), the store holds an active Session document
\* with the connection's composite id.
C18_SessionAfterHandshake ==
    \A c \in Conns :
        CountType(c, "connection_established") >= 1 => HasActiveSession(c)

\* C18, amended: the Session is created by the first init_agent handled for its
\* composite id and reactivated by each later one: the init_agent that sends
\* agent_initialized leaves an active Session document with the connection's
\* composite id, identity pair and workspace, and adds no other document; the
\* document exists from then on; a handshake writes no Session.
C18_SessionAfterInitAgent ==
    /\ [](\A c \in Conns :
            CountType(c, "agent_initialized") >= 1 =>
                \E d \in sessions : d.id = KeyOf(c))
    /\ [][\A c \in Conns : Handshake(c) => sessions' = sessions]_vars
    /\ [][\A c \in Conns :
            (InitAgent(c) /\ CountType(c, "agent_initialized")' >
                                 CountType(c, "agent_initialized")) =>
                /\ {d.id : d \in sessions'} = {d.id : d \in sessions} \cup {KeyOf(c)}
                /\ HasActiveSession(c)'
                /\ \E d \in sessions' :
                      /\ d.id = KeyOf(c) /\ d.is_active
                      /\ d.user_id = ident[c][1] /\ d.device_id = ident[c][2]
                      /\ d.workspace_session_uuid = workspace_session_uuid[c]]_vars

\* two connections of one identity pair have initialised their agents: the one
\* Session of the pair, created for the first, is bound to the workspace of the
\* second
C18_Witness ==
    \E c, o \in Conns :
        /\ c # o /\ ident[c] = ident[o]
        /\ CountType(c, "agent_initialized") >= 1
        /\ CountType(o, "agent_initialized") >= 1
        /\ Cardinality(sessions) = 1
        /\ \E d \in sessions : d.workspace_session_uuid = WorkspaceUuid(o, 1)

\* C19: the composite session id is the user_id, "_" and the X-Device-ID header
\* value ("u1" and "dev1" give "u1_dev1"); the agents of a connection, the Session
\* documents written for it and every event saved for it carry that id.
C19_CompositeKey ==
    /\ CompositeSessionId("u1", "dev1") = "u1_dev1"
    /\ \A a \in DOMAIN agents : agents[a].session_id = KeyOf(agents[a].conn)
    /\ \A i \in DOMAIN events :
          events[i].session_id = KeyOf(events[i].event_payload.conn)
    /\ \A d \in sessions :
          \E c \in Conns : CountType(c, "connection_established") = 1 /\ d.id = KeyOf(c)
    /\ \A c \in Conns :
          CountType(c, "agent_initialized") >= 1 => \E d \in sessions : d.id = KeyOf(c)

\* the session "u1_x" of the connection of user "u1" with device "x" has an event
\* of a run in the log
C19_Witness ==
    \E c \in Conns :
        /\ ident[c] = <<"u1", "x">>
        /\ \E d \in sessions : d.id = "u1_x"
        /\ \E i \in DOMAIN events :
              /\ events[i].event_payload.conn = c
              /\ events[i].event_type = "agent_event"
              /\ events[i].session_id = "u1_x"

\* the identity service answered with a success status, a body that parses and a
\* non-empty user_id
GoodResponse(r) ==
    /\ r.net = "ok"
    /\ r.status \in 200..299
    /\ r.body.json
    /\ r.body.user_id \notin {None, ""}

\* C20: fetch_user_id gives the user_id of the response when the service answered
\* with a success status, a body that parses and a non-empty user_id; for an HTTP
\* error status, a failed request, a malformed body or a body without (or with an
\* empty) user_id it gives None, and the handshake goes on with that value: no
\* exception reaches the handler.
C20_ResolverYieldsIdentity ==
    /\ \A r \in Responses : FetchUserId(r) \in Users \cup {None}
    /\ \A c \in Conns :
          Shaken(c) =>
              /\ GoodResponse(response[c]) => ident[c][1] = response[c].body.user_id
              /\ ~GoodResponse(response[c]) =>
                    /\ ident[c][1] = None
                    /\ outbox[c] = <<MsgAuthFailed>>
                    /\ pc[c] = "closed"

\* an answer with status 500 whose body names a user was refused, while a good
\* answer let the other connection in
C20_Witness ==
    \E c, o \in Conns :
        /\ response[c].status = 500 /\ response[c].body.user_id \in Users
        /\ ident[c][1] = None /\ pc[c] = "closed"
        /\ GoodResponse(response[o]) /\ ident[o][1] = response[o].body.user_id
        /\ InLoop(o)

\* ------------------------------------------------------------------ dispatch properties
\* the handler of a message left the dispatch loop of c and all that is bound to
\* c as they were
LoopStateKept(c) ==
    /\ pc[c] = "recv" /\ pc'[c] = "recv"
    /\ c \in active_connections'
    /\ UNCHANGED <<active_connections, active_agents, active_tasks,
                   message_processors, tasks, agents, sessions, events>>

\* C21: a message that cannot be decoded as JSON is answered with exactly one
\* error "Invalid JSON format", and a message whose type is unknown or missing
\* with exactly one error "Unknown message type: <type>"; the connection stays in
\* the dispatch loop and its bound agent, task slot and processor are unchanged.
C21_MalformedRejected ==
    [][\A c \in Conns :
          /\ InvalidJson(c) =>
                /\ outbox'[c] = Append(outbox[c],
                                       Msg("error", "Invalid JSON format", 0))
                /\ LoopStateKept(c)
          /\ UnknownType(c) =>
                /\ \E text \in {"bogus", "None"} :
                      outbox'[c] = Append(outbox[c],
                          Msg("error", "Unknown message type: " \o text, 0))
                /\ LoopStateKept(c)]_vars

\* both errors were sent on a connection that has an agent, and the loop is
\* reading again
C21_Witness ==
    \E c \in Conns :
        /\ pc[c] = "recv"
        /\ Count(outbox[c], MsgInvalidJson) = 1
        /\ Count(outbox[c], MsgUnknownType(None)) = 1
        /\ active_agents[c] # 0

\* a message was read by the dispatch loop of c
MessageRead(c) == received'[c] = received[c] + 1

\* the handler of the message raised: a value that is no object, or an init_agent
\* that bound no agent
HandlingFailed(c) == NotAnObject(c) \/ (InitAgent(c) /\ agents' = agents)

\* C22: no message read by the dispatch loop ends the connection: after it the
\* loop is still running and the connection still live; when the handling of the
\* message raised (a JSON value that is no object, the store or the agent's
\* construction failing in init_agent) exactly one `error` is sent.
C22_MessageNeverEndsConnection ==
    [][\A c \in Conns :
          /\ MessageRead(c) =>
                /\ pc'[c] \in {"recv", "spawn"}
                /\ c \in active_connections'
                /\ active_agents'[c] # 0 \/ active_agents[c] = 0
          /\ HandlingFailed(c) =>
                /\ outbox'[c] = Append(outbox[c], MsgRequestError)
                /\ LoopStateKept(c) \/ (InitAgent(c) /\ pc'[c] = "recv")]_vars

\* after a value that is no object and a failed init_agent the loop answered a ping
C22_Witness ==
    \E c \in Conns :
        /\ pc[c] = "recv"
        /\ received[c] = 3
        /\ Len(outbox[c]) = 4
        /\ outbox[c][2] = MsgRequestError
        /\ outbox[c][3] = MsgRequestError
        /\ outbox[c][4] = MsgPong
        /\ active_agents[c] = 0
        /\ sessions # {}

\* ------------------------------------------------------------------ disconnect properties
\* the agent's processor has taken the first event of the queue of agent a
Dequeued(a) ==
    /\ a \in DOMAIN agents
    /\ agents[a].queue # <<>>
    /\ agents'[a].queue = Tail(agents[a].queue)

\* the queue of agent a holds an event that its processor will send on c
Undelivered(a, c) ==
    /\ agents[a].websocket = c
    /\ \E i \in DOMAIN agents[a].queue : agents[a].queue[i].type # "user_message"

\* C23: the cleanup of a disconnect sets the websocket of the bound agent to
\* none and leaves every queue as it is; every queued event is taken by its
\* processor, which appends it to the log of the agent's session, so that every
\* queue is eventually empty; an event taken from an agent without websocket is
\* sent nowhere, and after the cleanup no queue holds an event that will be sent
\* on the closed connection.
C23_DetachNotDestroy ==
    /\ [][\A c \in Conns :
            Disconnect(c) =>
               /\ active_agents[c] # 0 => agents'[active_agents[c]].websocket = None
               /\ \A a \in DOMAIN agents : agents'[a].queue = agents[a].queue
               /\ events' = events]_vars
    /\ [][\A a \in AgentIds :
            Dequeued(a) =>
               /\ Len(events') = Len(events) + 1
               /\ Last(events').session_id = agents[a].session_id
               /\ Last(events').event_payload = Head(agents[a].queue)]_vars
    /\ \A a \in AgentIds :
            (a \in DOMAIN agents /\ agents[a].queue # <<>>)
                ~> (a \in DOMAIN agents /\ agents[a].queue = <<>>)
    /\ [][\A a \in AgentIds :
            (Dequeued(a) /\ agents[a].websocket = None) => outbox' = outbox]_vars
    /\ [][\A c \in Conns :
            Disconnect(c) => \A a \in DOMAIN agents : ~Undelivered(a, c)']_vars

\* C24: after the cleanup of a disconnect every Task of the connection that was
\* not terminal has been asked to cancel, and the connection has no entry left in
\* active_connections, active_agents, active_tasks and message_processors,
\* whatever happened on the connection before.
C24_CleanupRemovesAll ==
    [][\A c \in Conns :
          Disconnect(c) =>
              /\ \A t \in NonTerminalTasks(c) : tasks'[c][t].cancel
              /\ c \notin active_connections'
              /\ active_agents'[c] = 0
              /\ active_tasks'[c] = 0
              /\ message_processors'[c] = 0]_vars

\* C25: in every state, for every connection, cleanup_connection runs without
\* raising, whatever part of the connection's set-up exists; run again on what it
\* left, it raises nothing either and leaves everything as the first run left it.
C25_CleanupTotalIdempotent ==
    \A c \in Conns :
        LET once == Cleanup(Bookkeeping, c)
        IN  /\ ~CleanupRaises(Bookkeeping, c)
            /\ ~CleanupRaises(once, c)
            /\ Cleanup(once, c) = once

\* one connection was cleaned up by its disconnect with no agent and no Task, and
\* another with an agent, a processor and a Task that was running
C25_Witness ==
    \E c, d \in Conns :
        /\ pc[c] = "closed" /\ CountType(c, "connection_established") = 1
        /\ tasks[c] = <<>> /\ \A a \in DOMAIN agents : agents[a].conn # c
        /\ c \notin active_connections
        /\ pc[d] = "closed" /\ d \notin active_connections
        /\ \E a \in DOMAIN agents : agents[a].conn = d /\ agents[a].websocket = None
        /\ \E t \in DOMAIN tasks[d] : tasks[d][t].cancel /\ tasks[d][t].st = "running"
        /\ active_tasks[d] = 0 /\ active_agents[d] = 0 /\ message_processors[d] = 0

\* C26: a ping read by the dispatch loop, whatever the state of the connection
\* (agent bound or not, a Task running, finished or asked to cancel), sends
\* exactly one pong and changes nothing else; and the loop can read a ping
\* whenever it is reading.
C26_PingPong ==
    /\ [][\A c \in Conns :
            Ping(c) =>
               /\ outbox'[c] = Append(outbox[c], Msg("pong", "", 0))
               /\ \A d \in Conns \ {c} : outbox'[d] = outbox[d]
               /\ LoopStateKept(c)]_vars
    /\ [](\A c \in Conns : CanReceive(c) => ENABLED Ping(c))

\* a ping was answered on a connection with an agent bound and a Task running
C26_Witness ==
    \E c \in Conns :
        /\ outbox[c] # <<>>
        /\ Last(outbox[c]) = MsgPong
        /\ pc[c] = "recv"
        /\ active_agents[c] # 0
        /\ \E t \in DOMAIN tasks[c] : tasks[c][t].st = "running" /\ active_tasks[c] = t

\* the agents constructed for connection c, in construction order
AgentsOf(c) == {a \in DOMAIN agents : agents[a].conn = c}

\* the agent of the most recent successful init_agent of c (0: none)
LatestAgent(c) ==
    IF AgentsOf(c) = {} THEN 0
    ELSE CHOOSE a \in AgentsOf(c) : \A b \in AgentsOf(c) : b <= a

\* C27: while a connection is in its dispatch loop, active_agents and
\* message_processors hold for it the agent and the processor of its most recent
\* successful init_agent (nothing before the first); an init_agent is accepted
\* whether or not an agent is bound, and a successful one sends `agent_initialized`
\* and binds the agent and the processor it has just created.
C27_SingleAgentSlot ==
    /\ [](\A c \in Conns :
            InLoop(c) => /\ active_agents[c] = LatestAgent(c)
                         /\ message_processors[c] = LatestAgent(c))
    /\ [][\A c \in Conns :
            (InitAgent(c) /\ agents' # agents) =>
               /\ outbox'[c] = Append(outbox[c], Msg("agent_initialized",
                                                     "Agent initialized", 0))
               /\ Len(agents') = Len(agents) + 1
               /\ agents'[Len(agents')].conn = c
               /\ active_agents'[c] = Len(agents')
               /\ message_processors'[c] = Len(agents')
               /\ \A d \in Conns \ {c} : active_agents'[d] = active_agents[d]]_vars
    /\ [](\A c \in Conns :
            CanReceive(c) => ENABLED (InitAgent(c) /\ agents' # agents))

\* a connection has had two successful init_agent and is bound to the second agent
C27_Witness ==
    \E c \in Conns :
        /\ InLoop(c)
        /\ Cardinality(AgentsOf(c)) = 2
        /\ CountType(c, "agent_initialized") = 2
        /\ active_agents[c] = LatestAgent(c)
        /\ active_agents[c] # 0

\* ------------------------------------------------------------------ persistence pathways
\* Events can still reach the processor of agent a: its queue holds one, a
\* connection in its dispatch loop is bound to it (the next query puts the user
\* message on its queue), or a run started on it is under way.  The processor was
\* started by init_agent and the gateway cancels no processor.
LivePathway(a) ==
    \/ agents[a].queue # <<>>
    \/ \E c \in Conns : InLoop(c) /\ active_agents[c] = a
    \/ \E c \in Conns : \E t \in DOMAIN tasks[c] :
          tasks[c][t].agent = a /\ tasks[c][t].st = "running"
                                /\ tasks[c][t].run = "pending"

\* the agents of one user and device, so of one session key, whose processors
\* write the events of that session
LivePathways(user_id, device_id) ==
    {a \in DOMAIN agents : /\ agents[a].user_id = user_id
                           /\ agents[a].device_id = device_id
                           /\ agents[a].session_id = CompositeSessionId(user_id, device_id)
                           /\ LivePathway(a)}

\* C28: at any time, for every session key, at most one agent's processor is
\* writing (or can be given) events of that key, after any sequence of
\* init_agent, query, disconnect and connection with the same identity.
C28_OnePathwayPerSession ==
    \A p \in AllIdentities : Cardinality(LivePathways(p[1], p[2])) <= 1

\* ------------------------------------------------------------------ ownership of the bookkeeping
\* the entries of connection c in the four structures
Entries(c) == <<c \in active_connections, active_agents[c], active_tasks[c],
                message_processors[c]>>

\* a step of the handler of c: its handshake, a branch of its dispatch loop that
\* writes a map, or its cleanup
HandlerStep(c) == Handshake(c) \/ InitAgent(c) \/ QuerySpawn(c) \/ Disconnect(c)

\* a step of a Task of c that runs its finally clause
TaskEndStep(c) ==
    \E t \in TaskIds : TaskResumes(c, t) \/ TaskSendsError(c, t) \/ TaskCancelled(c, t)

\* C29: the entries of a connection in active_connections, active_agents and
\* message_processors change only in a step of that connection's handler (its
\* registration, its dispatch loop, its cleanup), its entry in active_tasks only
\* there or in the finally clause of one of its own Tasks; and a step that changes
\* the entries of one connection leaves the entries of every other connection as
\* they are.
C29_OwnEntriesOnly ==
    [][\A c \in Conns :
          /\ (c \in active_connections') # (c \in active_connections) => HandlerStep(c)
          /\ active_agents'[c] # active_agents[c] => HandlerStep(c)
          /\ message_processors'[c] # message_processors[c] => HandlerStep(c)
          /\ active_tasks'[c] # active_tasks[c] => HandlerStep(c) \/ TaskEndStep(c)
          /\ Entries(c)' # Entries(c) =>
                \A d \in Conns \ {c} : Entries(d)' = Entries(d)]_vars

\* a connection was cleaned up after having had an agent, and a Task of a
\* connection has run its finally clause, while the other connection keeps its
\* agent, its processor and its entry in the live set
C29_Witness ==
    \E c, d \in Conns :
        /\ c # d
        /\ pc[c] = "closed" /\ AgentsOf(c) # {} /\ Entries(c) = <<FALSE, 0, 0, 0>>
        /\ InLoop(d)
        /\ \E t \in DOMAIN tasks[d] : tasks[d][t].st = "completed"
        /\ Entries(d) = <<TRUE, LatestAgent(d), 0, LatestAgent(d)>>
        /\ LatestAgent(d) # 0

\* ------------------------------------------------------------------ GET /api/sessions/{session_id}/events
\* The names bound at module level of ws_server.py among those get_session_events
\* reads.  `pymongo` is imported only inside get_sessions_by_device_id, where the
\* import statement binds a name local to that function.
ModuleNames == {"DatabaseManager", "HTTPException", "logger"}

\* raise HTTPException(status_code=500, detail=...)
HttpError(detail) == [status |-> 500, detail |-> detail, events |-> <<>>]

\* return {"events": event_list}
HttpOk(event_list) == [status |-> 200, detail |-> "", events |-> event_list]

\* get_session_events(session_id): the responses it can give on log E.  Reading
\* pymongo.ASCENDING raises NameError when the module has no such name; the
\* except clause turns every exception of the body into the 500 response.
GetSessionEvents(E, session_id) ==
    IF "pymongo" \notin ModuleNames
      THEN {HttpError("Error retrieving events: name 'pymongo' is not defined")}
      ELSE {HttpOk([i \in DOMAIN r |-> E[r[i]]]) :
                r \in GetEventsForSession(E, session_id)}

\* C30: for every composite key, with the store working, the events endpoint
\* answers 200 with all the events stored for the key, each once, in
\* non-decreasing timestamp order (the empty list when there is none), and never
\* with an error response.
C30_EventsEndpointLists ==
    \A session_id \in SessionIds :
        \A resp \in GetSessionEvents(events, session_id) :
            /\ resp.status = 200
            /\ Len(resp.events) = Cardinality(EventsOf(events, session_id))
            /\ \A i \in EventsOf(events, session_id) :
                  \E j \in DOMAIN resp.events : resp.events[j] = events[i]
            /\ \A i, j \in DOMAIN resp.events :
                  i < j => resp.events[i].timestamp <= resp.events[j].timestamp

\* ------------------------------------------------------------------ POST /api/upload
\* A file name is the sequence of its characters, a path the sequence of its
\* components, and a location of the file system the sequence of components that
\* leads to it from the workspace directory of the session (<<>>).
Dot == "."
DotDot == <<Dot, Dot>>
ReportPdf == <<"r", Dot, "p">>
Report1Pdf == <<"r", "_", "1", Dot, "p">>
SubDir == <<"s">>
\* UPLOAD_FOLDER_NAME
UploadFolderName == <<"U">>
UploadDir == <<UploadFolderName>>

\* file_info["path"]: `abs` is Path(file_path).is_absolute()
UploadPaths ==
    {[abs |-> FALSE, parts |-> <<ReportPdf>>],
     [abs |-> FALSE, parts |-> <<Report1Pdf>>],
     [abs |-> FALSE, parts |-> <<SubDir, ReportPdf>>],
     [abs |-> FALSE, parts |-> <<SubDir, DotDot, ReportPdf>>],
     [abs |-> FALSE, parts |-> <<DotDot, ReportPdf>>],
     [abs |-> TRUE, parts |-> <<SubDir, ReportPdf>>]}

\* file_info["content"]
Contents == {"A", "B"}

\* name.rfind(".") counted from 1 (0: no dot)
LastDot(name) ==
    IF \E i \in DOMAIN name : name[i] = Dot
      THEN CHOOSE i \in DOMAIN name :
               name[i] = Dot /\ \A j \in DOMAIN name : name[j] = Dot => j <= i
      ELSE 0

\* PurePath.suffix: from the last dot, unless it is the first or the last character
Suffix(name) ==
    LET i == LastDot(name)
    IN  IF 1 < i /\ i < Len(name) THEN SubSeq(name, i, Len(name)) ELSE <<>>

\* PurePath.stem
Stem(name) ==
    LET i == LastDot(name)
    IN  IF 1 < i /\ i < Len(name) THEN SubSeq(name, 1, i - 1) ELSE name

\* f"{base_name}_{counter}{extension}"
NewFilename(base_name, counter, extension) ==
    base_name \o <<"_">> \o <<ToString(counter)>> \o extension

Front(seq) == SubSeq(seq, 1, Len(seq) - 1)

\* the directory that holds a location (that of the workspace directory stands for
\* everything above it)
ParentOf(loc) == IF loc = <<>> THEN <<>> ELSE Front(loc)

\* no such location (ENOENT, ENOTDIR)
NoEntry == <<<<"ENOENT">>>>

\* the call raised
NoFs == [dirs |-> {}, files |-> <<>>]

\* Path resolution of the operating system: the location that `parts` names from
\* directory cur.  Every component but the last must lead to a directory.
RECURSIVE Walk(_, _, _)
Walk(F, cur, parts) ==
    IF parts = <<>> THEN cur
    ELSE LET next == IF Head(parts) = DotDot THEN ParentOf(cur)
                     ELSE cur \o <<Head(parts)>>
         IN  IF Len(parts) = 1 THEN next
             ELSE IF next \in F.dirs THEN Walk(F, next, Tail(parts))
             ELSE NoEntry

\* Path.exists()
Exists(F, cur, parts) ==
    LET loc == Walk(F, cur, parts)
    IN  loc # NoEntry /\ (loc \in F.dirs \/ loc \in DOMAIN F.files)

\* Path.mkdir(parents=True, exist_ok=True): the file system it leaves, or NoFs
\* when a component is a file
RECURSIVE MkdirParents(_, _, _)
MkdirParents(F, cur, parts) ==
    IF parts = <<>> THEN F
    ELSE LET next == IF Head(parts) = DotDot THEN ParentOf(cur)
                     ELSE cur \o <<Head(parts)>>
         IN  IF next \in DOMAIN F.files THEN NoFs
             ELSE MkdirParents([F EXCEPT !.dirs = @ \cup {next}], next, Tail(parts))

\* Path(file_path).name for an absolute path
RelativeParts(path) ==
    IF path.abs THEN <<path.parts[Len(path.parts)]>> ELSE path.parts

\* full_path relative to upload_dir: the requested path, or on a collision the
\* first `<stem>_<counter><suffix>` in upload_dir that does not exist
TargetParts(F, parts) ==
    IF ~Exists(F, UploadDir, parts) THEN parts
    ELSE LET name == IF parts[Len(parts)] = DotDot THEN DotDot
                     ELSE parts[Len(parts)]
             base_name == Stem(name)
             extension == Suffix(name)
             Free(n) == ~Exists(F, UploadDir, <<NewFilename(base_name, n, extension)>>)
             last == Cardinality(F.dirs) + Cardinality(DOMAIN F.files) + 1
             counter == CHOOSE n \in 1..last : Free(n) /\ \A m \in 1..(n - 1) : ~Free(m)
         IN  <<NewFilename(base_name, counter, extension)>>

\* upload_file_endpoint for a request with a session whose workspace exists: the
\* file system it leaves.  An exception (a component of the path is a file, the
\* target is a directory) ends it with the 500 response after the directories
\* made so far.
UploadFile(F, path, content) ==
    LET F1 == [F EXCEPT !.dirs = @ \cup {UploadDir}]
        full_path == TargetParts(F1, RelativeParts(path))
        F2 == MkdirParents(F1, UploadDir, Front(full_path))
        loc == Walk(F2, UploadDir, full_path)
    IN  IF F2 = NoFs THEN F1
        ELSE IF loc \in F2.dirs THEN F2
        ELSE [F2 EXCEPT !.files = (loc :> content) @@ @]

\* POST /api/upload
Upload ==
    /\ Cardinality(DOMAIN fs.files) < MaxFiles
    /\ \E path \in UploadPaths, content \in Contents :
          fs' = UploadFile(fs, path, content)
    /\ UNCHANGED <<gatewayVars, sessions, events, clock, callers>>

NextUpload == Upload

SpecUpload == Init /\ [][NextUpload]_vars

\* ------------------------------------------------------------------ upload properties
\* the files a step has written: new ones, and ones whose content changed
Written == {loc \in DOMAIN fs'.files :
               loc \notin DOMAIN fs.files \/ fs'.files[loc] # fs.files[loc]}

\* C31: an upload overwrites no file: every file stored before it is stored after
\* it with the same content; and when the requested path exists in the upload
\* area, the file is written in the upload directory under
\* <stem>_<n><extension> for the least n >= 1 whose name does not exist.
C31_UploadNeverOverwrites ==
    [][/\ \A loc \in DOMAIN fs.files :
             loc \in DOMAIN fs'.files /\ fs'.files[loc] = fs.files[loc]
       /\ \A path \in UploadPaths, content \in Contents :
             (/\ fs' = UploadFile(fs, path, content)
              /\ Exists(fs, UploadDir, RelativeParts(path))) =>
                 LET parts == RelativeParts(path)
                     name == parts[Len(parts)]
                     Numbered(n) == Stem(name) \o <<"_", ToString(n)>> \o Suffix(name)
                 IN  \E n \in 1..(MaxFiles + 1) :
                        /\ Written = {UploadDir \o <<Numbered(n)>>}
                        /\ \A m \in 1..(n - 1) :
                              Exists(fs, UploadDir, <<Numbered(m)>>)]_vars

\* C39: every file an upload has written is inside the upload directory of the
\* session, whatever path the request gave: absolute, with subdirectories, with
\* parent-directory components, colliding with a stored name or not.
C39_UploadStaysInUploadArea ==
    \A loc \in DOMAIN fs.files :
        Len(loc) >= 2 /\ SubSeq(loc, 1, Len(UploadDir)) = UploadDir

\* ------------------------------------------------------------------ suspension of the dispatch loop
\* C32: the dispatch loop of an open connection is suspended only in
\* receive_text: it never awaits the run of an agent or the prompt enhancer, so
\* whenever the handler is past the handshake and not closed (and not inside the
\* send of an acknowledgment) a ping and a cancel are handled at once.
C32_LoopSuspendsOnlyAtReceive ==
    \A c \in Conns :
        (pc[c] \notin {"idle", "closed", "spawn"} /\ TotalReceived < MaxRecv) =>
            /\ pc[c] = "recv"
            /\ ENABLED Ping(c)
            /\ ENABLED Cancel(c)

\* ------------------------------------------------------------------ convergence of the session store
\* a store client is between the two writes of a create_session call for pair p
Pending(p) ==
    \E w \in StoreClients :
        /\ callers[w].pc = "deactivated"
        /\ callers[w].user_id = p[1] /\ callers[w].device_id = p[2]

\* C33: when the last of the create_session calls under way for a pair returns,
\* exactly one Session document of the pair is active, and this stays so until
\* the next call for the pair makes its first write: a pair that has had an active
\* session is without one only while a call for it is between its two writes.
C33_ConvergesToOneActive ==
    /\ [][\A w \in StoreClients : \A p \in AllIdentities :
            (/\ callers[w].pc = "deactivated"
             /\ p = <<callers[w].user_id, callers[w].device_id>>
             /\ CreateSessionUpserts(w)
             /\ ~Pending(p)') =>
                Cardinality(ActiveSessions(p)') = 1]_vars
    /\ [][\A p \in AllIdentities :
            (Cardinality(ActiveSessions(p)) = 1 /\ ~Pending(p)') =>
                Cardinality(ActiveSessions(p)') = 1]_vars

\* ------------------------------------------------------------------ the key and the pair
\* the (user_id, device_id) pair an agent was constructed for
PairOf(agent) == <<agent.user_id, agent.device_id>>

\* C34: agents constructed for different (user_id, device_id) pairs never have
\* the same composite key; so an init_agent of one pair changes or removes no
\* Session document of another pair, and an event saved for an agent of one pair
\* is not filed under the key of another pair.
C34_KeyIdentifiesPair ==
    /\ [](\A a, b \in DOMAIN agents :
            PairOf(agents[a]) # PairOf(agents[b]) =>
                agents[a].session_id # agents[b].session_id)
    /\ [][\A c \in Conns :
            InitAgent(c) =>
                \A d \in sessions :
                    <<d.user_id, d.device_id>> # ident[c] => d \in sessions']_vars
    /\ [][\A a \in DOMAIN agents :
            ProcessorStep(a) =>
                \A q \in AllIdentities :
                    q # PairOf(agents[a]) =>
                        agents[a].session_id # CompositeSessionId(q[1], q[2])]_vars

\* ------------------------------------------------------------------ a query without an agent
\* the query that Task t of c answers was acknowledged before the loop had
\* answered any init_agent of c (with agent_initialized or with a request error)
BeforeAnyInit(c, t) ==
    \E i \in DOMAIN outbox[c] :
        /\ outbox[c][i] = MsgProcessing(t)
        /\ \A j \in 1..(i - 1) :
              outbox[c][j] \notin {MsgAgentInitialized, MsgRequestError}

\* the user message of Task t of c is on a queue or in the log
UserMessageKept(c, t) ==
    \/ \E a \in DOMAIN agents : \E k \in DOMAIN agents[a].queue :
          agents[a].queue[k] = Event("user_message", c, t)
    \/ \E i \in DOMAIN events : events[i].event_payload = Event("user_message", c, t)

\* C35: the Task of a query that was read before any init_agent of its connection
\* starts no run and enqueues or saves no user message; once it is terminal on an
\* attached connection it has sent exactly one "Agent not initialized" error (after
\* the one ack of its query), and the loop accepts the next query.
C35_QueryWithoutAgent ==
    \A c \in Conns : \A t \in DOMAIN tasks[c] :
        BeforeAnyInit(c, t) =>
            /\ Count(outbox[c], MsgProcessing(t)) = 1
            /\ tasks[c][t].agent = 0
            /\ tasks[c][t].st \notin {"running", "report"}
            /\ ~UserMessageKept(c, t)
            /\ Count(outbox[c], MsgNoAgent(t)) <= 1
            /\ (Done(tasks[c][t]) /\ c \in active_connections) =>
                  /\ Count(outbox[c], MsgNoAgent(t)) = 1
                  /\ (active_tasks[c] = t /\ CanReceive(c)) => ENABLED QueryAccepted(c)

\* ------------------------------------------------------------------ the user message of a query
\* the positions of event e on the queue of agent a
Queued(a, e) == {k \in DOMAIN agents[a].queue : agents[a].queue[k] = e}

\* the positions of event e in the log
Logged(e) == {i \in DOMAIN events : events[i].event_payload = e}

\* how many times the user message of Task t of c has been enqueued: an event
\* leaves a queue only to be saved
UserMessages(c, t) ==
    SumOver([a \in DOMAIN agents |-> Cardinality(Queued(a, Event("user_message", c, t)))],
            DOMAIN agents)
        + Cardinality(Logged(Event("user_message", c, t)))

\* the query that Task t of c answers was acknowledged after an init_agent of c
\* had bound an agent
BoundAtAck(c, t) ==
    \E i \in DOMAIN outbox[c] :
        /\ outbox[c][i] = MsgProcessing(t)
        /\ \E j \in 1..(i - 1) : outbox[c][j] = MsgAgentInitialized

\* C36 as stated: every accepted query on a connection with a bound agent has,
\* once its Task is terminal, exactly one user message enqueued.
C36_UserMessageForEveryQuery ==
    \A c \in Conns : \A t \in DOMAIN tasks[c] :
        (BoundAtAck(c, t) /\ Done(tasks[c][t])) => UserMessages(c, t) = 1

\* C36, amended: a Task that takes its first step with an agent bound has exactly
\* one user message, enqueued on the queue of that agent, which is the agent that
\* runs the query; a Task that has not, or found no agent, has none.  The user
\* message is enqueued before the run emits anything: on the queue and in the log
\* it precedes every event of the run of its Task.
C36_UserMessageBeforeRun ==
    \A c \in Conns : \A t \in DOMAIN tasks[c] :
        LET um == Event("user_message", c, t)
            ev == Event("agent_event", c, t)
            a  == tasks[c][t].agent
        IN  /\ UserMessages(c, t) = IF a # 0 THEN 1 ELSE 0
            /\ a # 0 =>
                  /\ agents[a].conn = c
                  /\ Queued(a, um) # {} \/
                        \E i \in Logged(um) : events[i].session_id = agents[a].session_id
                  /\ \A b \in DOMAIN agents : Queued(b, ev) # {} => b = a
                  /\ \A k \in Queued(a, ev) :
                        \/ Logged(um) # {}
                        \/ \E j \in Queued(a, um) : j < k
            /\ \A i \in Logged(ev) : \E j \in Logged(um) : j < i
            /\ (\/ tasks[c][t].emitted > 0
                \/ \E b \in DOMAIN agents : Queued(b, ev) # {}
                \/ Logged(ev) # {}) => a # 0

\* the log holds the user message of a query and, after it, an event of its run
C36_Witness ==
    \E c \in Conns : \E t \in DOMAIN tasks[c] :
        \E i \in Logged(Event("agent_event", c, t)) :
            \E j \in Logged(Event("user_message", c, t)) : j < i

\* ------------------------------------------------------------------ transports after cleanup
\* C37: once the handler of a connection has run the disconnect cleanup, no agent
\* constructed for the connection, bound or replaced, holds its transport, and
\* nothing more is sent to the transport.
C37_NoAgentKeepsTransport ==
    /\ [](\A c \in Conns :
            pc[c] = "closed" =>
                \A a \in DOMAIN agents : agents[a].conn = c => agents[a].websocket # c)
    /\ [][\A c \in Conns : pc[c] = "closed" => outbox'[c] = outbox[c]]_vars

\* ------------------------------------------------------------------ the live set
\* C38: the live set holds only connections whose handler is still running: a
\* connection whose handler has ended, for whatever reason, is not in it.
C38_LiveSetOnlyRunningHandlers ==
    \A c \in Conns : pc[c] = "closed" => c \notin active_connections

====
